---------------------------- MODULE Spec2Model ----------------------------
(***************************************************************************)
(* Model of the recruiter mailer scripts.                                  *)
(*                                                                         *)
(*   script = "secure"  src/send_recruiters.py            (retry, dry-run) *)
(*   script = "drive"   src/send_recruiters_2.py:1-154    (Drive resume)   *)
(*   script = "dedup"   src/send_recruiters_2.py:185-343  (Drive + dedup)  *)
(*                                                                         *)
(* Text is a sequence of one-character strings, so that strip(), lower(),  *)
(* title() and capitalize() are computed character by character.  A CSV    *)
(* file is the sequence of rows csv.reader yields, each a sequence of      *)
(* cells.  Every effect a run has on the outside world (connection, login, *)
(* send_message, sleep, download request, console line) is appended to     *)
(* log in program order.                                                   *)
(***************************************************************************)
EXTENDS Integers, Sequences, FiniteSets, TLC

VARIABLES
    script,             \* which of the three programs runs
    pc,                 \* position of main
    csvExists,          \* whether the --csv path is a file
    rows,               \* list(csv.reader(f))
    attachments,        \* --attachments: sequence of [name, exists]
    retries,            \* --retries
    dry_run,            \* --dry-run
    delay,              \* --delay
    recruiters,         \* result of load_recruiters
    unique_recruiters,  \* result of the dedup loop (dedup script)
    app_password,       \* the secret: "unset", "pw" or "" (empty)
    messages,           \* every MIMEMultipart built so far, in build order
    i,                  \* loop index of the send loop (1-based, as enumerate)
    attempt,            \* retry counter of send_via_gmail
    server,             \* "none", "open", "closed"
    tempFile,           \* whether supriya.pdf exists on disk
    log,                \* external effects, in order
    exitCode            \* process exit status once pc = "done", else -1

vars == <<script, pc, csvExists, rows, attachments, retries, dry_run, delay,
          recruiters, unique_recruiters, app_password, messages, i, attempt,
          server, tempFile, log, exitCode>>

----------------------------------------------------------------------------
(* Bounds *)

MaxContacts == 3
MaxRows == 3
MaxRetries == 2
NegRetries == 2
MaxAttach == 2

----------------------------------------------------------------------------
(* Text *)

Uppers == <<"A","B","C","D","E","F","G","H","I","J","K","L","M",
            "N","O","P","Q","R","S","T","U","V","W","X","Y","Z">>
Lowers == <<"a","b","c","d","e","f","g","h","i","j","k","l","m",
            "n","o","p","q","r","s","t","u","v","w","x","y","z">>

IsUpper(c) == \E k \in DOMAIN Uppers : Uppers[k] = c
IsLower(c) == \E k \in DOMAIN Lowers : Lowers[k] = c
IsCased(c) == IsUpper(c) \/ IsLower(c)
IsSpace(c) == c \in {" ", "\t"}

LowerChar(c) ==
    IF IsUpper(c) THEN Lowers[CHOOSE k \in DOMAIN Uppers : Uppers[k] = c] ELSE c
UpperChar(c) ==
    IF IsLower(c) THEN Uppers[CHOOSE k \in DOMAIN Lowers : Lowers[k] = c] ELSE c

SetMin(S) == CHOOSE x \in S : \A y \in S : x <= y
SetMax(S) == CHOOSE x \in S : \A y \in S : y <= x

\* str.lower()
Lower(s) == [k \in DOMAIN s |-> LowerChar(s[k])]

\* str.strip()
Strip(s) ==
    LET keep == {k \in DOMAIN s : ~IsSpace(s[k])}
    IN  IF keep = {} THEN <<>> ELSE SubSeq(s, SetMin(keep), SetMax(keep))

\* s.split(sep)[0] for a one-character separator
SplitFirst(s, sep) ==
    LET at == {k \in DOMAIN s : s[k] = sep}
    IN  IF at = {} THEN s ELSE SubSeq(s, 1, SetMin(at) - 1)

\* s.replace(old, new) for one-character old and new
Replace(s, old, new) == [k \in DOMAIN s |-> IF s[k] = old THEN new ELSE s[k]]

\* str.title(): a cased character is upper-cased after an uncased one (or at
\* the start) and lower-cased after a cased one
Title(s) ==
    [k \in DOMAIN s |->
        IF k = 1 \/ ~IsCased(s[k - 1]) THEN UpperChar(s[k]) ELSE LowerChar(s[k])]

\* str.capitalize()
Capitalize(s) ==
    [k \in DOMAIN s |-> IF k = 1 THEN UpperChar(s[k]) ELSE LowerChar(s[k])]

T_name == <<"n","a","m","e">>
T_email == <<"e","m","a","i","l">>

----------------------------------------------------------------------------
(* load_recruiters *)

\* src/send_recruiters.py: header test on stripped, lower-cased cells
IsHeaderSecure(row) ==
    LET first == {Lower(Strip(row[k])) : k \in DOMAIN row}
    IN  T_email \in first \/ T_name \in first

\* src/send_recruiters_2.py: header test on lower-cased cells, "email" only
IsHeaderDrive(row) == \E k \in DOMAIN row : Lower(row[k]) = T_email

IsHeader(s, row) == IF s = "secure" THEN IsHeaderSecure(row) ELSE IsHeaderDrive(row)

FallbackNameSecure(email) ==
    Title(Replace(Replace(SplitFirst(email, "@"), ".", " "), "_", " "))

FallbackNameDrive(email) ==
    Capitalize(SplitFirst(SplitFirst(email, "@"), "."))

FallbackName(s, email) ==
    IF s = "secure" THEN FallbackNameSecure(email) ELSE FallbackNameDrive(email)

\* the rows the loop does not skip: fewer than two cells (all loaders), an
\* empty e-mail (send_recruiters.py only)
KeepRow(s, r) ==
    /\ Len(r) >= 2
    /\ s = "secure" => Strip(r[2]) # <<>>

\* a loader that forgets .lower()
EmailOnLoadCaseKept(s, cell) == Strip(cell)

\* the e-mail a loader stores: the dedup script lower-cases it
EmailOnLoad(s, cell) == IF s = "dedup" THEN Lower(Strip(cell)) ELSE Strip(cell)

Contact(s, r) ==
    LET name == Strip(r[1])
        email == EmailOnLoad(s, r[2])
    IN  [name |-> IF name = <<>> THEN FallbackName(s, email) ELSE name,
         email |-> email]

RECURSIVE CollectRows(_, _)
CollectRows(s, rs) ==
    IF rs = <<>> THEN <<>>
    ELSE LET rest == CollectRows(s, Tail(rs))
         IN  IF KeepRow(s, Head(rs)) THEN <<Contact(s, Head(rs))>> \o rest ELSE rest

load_recruiters(s, rs) ==
    IF rs = <<>> THEN <<>>
    ELSE CollectRows(s, IF IsHeader(s, rs[1]) THEN Tail(rs) ELSE rs)

----------------------------------------------------------------------------
(* the dedup loop of main (dedup script) *)

RECURSIVE DedupFrom(_, _)
DedupFrom(rs, seen_emails) ==
    IF rs = <<>> THEN <<>>
    ELSE IF Head(rs).email \in seen_emails
         THEN DedupFrom(Tail(rs), seen_emails)
         ELSE <<Head(rs)>> \o DedupFrom(Tail(rs), seen_emails \cup {Head(rs).email})

Deduplicate(rs) == DedupFrom(rs, {})

----------------------------------------------------------------------------
(* messages *)

SUBJECT == "Applying for DevOps Engineer position"
CUSTOM_NAME == "Supriya G.pdf"
RESUME_PATH == "supriya.pdf"

TextPart(name) == [kind |-> "text", content |-> name, filenames |-> <<>>]
BinPart(path, names) == [kind |-> "bin", content |-> path, filenames |-> names]

\* attach_file: the parts of msg after attaching the file at path
attach_file(s, parts, path) ==
    CASE s = "secure" -> Append(parts, BinPart(path, <<path>>))
      [] s = "drive"  -> LET part == BinPart(path, <<path, CUSTOM_NAME>>)
                         IN  Append(Append(parts, part), part)
      [] s = "dedup"  -> Append(parts, BinPart(path, <<CUSTOM_NAME>>))

RECURSIVE AttachAll(_, _, _)
AttachAll(s, parts, paths) ==
    IF paths = <<>> THEN parts
    ELSE AttachAll(s, attach_file(s, parts, Head(paths)), Tail(paths))

\* build_message (secure) and the message send_email builds (drive, dedup):
\* the text part first, then the attachments in order
build_message(s, contact, paths) ==
    [to      |-> contact.email,
     subject |-> SUBJECT,
     parts   |-> AttachAll(s, <<TextPart(contact.name)>>, paths)]

----------------------------------------------------------------------------
(* the effects log *)

Ev(ev, k, n, res, to) == [ev |-> ev, i |-> k, n |-> n, res |-> res, to |-> to]

EvDownload(res)   == Ev("download", 0, 0, res, <<>>)
EvConnect(res)    == Ev("connect", 0, 0, res, <<>>)
EvLogin(res)      == Ev("login", 0, 0, res, <<>>)
EvSend(k, res, m) == Ev("send", k, 0, res, m.to)
EvSent(k, to)     == Ev("sent", k, 0, "", to)
EvFailed(k, to)   == Ev("failed", k, 0, "", to)
EvBackoff(k, n)   == Ev("backoff", k, n, "", <<>>)
EvDelay(k)        == Ev("delay", k, 0, "", <<>>)
EvPlanned(k, m)   == Ev("planned", k, 0, m.subject, m.to)
EvSkipped(n)      == Ev("skipped", 0, n, "", <<>>)

NetworkEvents == {"download", "connect", "login", "send"}

RECURSIVE Pow2(_)
Pow2(n) == IF n <= 0 THEN 1 ELSE 2 * Pow2(n - 1)

\* a backoff computed before the attempt is counted
BackoffFromZero(a) == Pow2(a - 1)

\* `backoff = 2 ** attempt`, in seconds
Backoff(a) == Pow2(a)

----------------------------------------------------------------------------
(* inputs *)

Scripts == {"secure", "drive", "dedup"}

T_Name == <<"N","a","m","e">>
T_Email == <<"E","m","a","i","l">>

\* the k-th data row of the files the whole pipeline is run on: the second
\* row repeats the first row's address in upper case
FileRow(k) ==
    <<  <<Uppers[k]>>,
        IF k = 2 THEN <<Uppers[1], "@", "Y">> ELSE <<Lowers[k], "@", "y">>  >>

PipelineFiles ==
    { <<  <<T_Name, T_Email>>  >> \o [k \in 1..n |-> FileRow(k)] : n \in 0..MaxContacts }

RECURSIVE SeqsUpTo(_, _)
SeqsUpTo(S, n) ==
    IF n = 0 THEN {<<>>}
    ELSE LET shorter == SeqsUpTo(S, n - 1)
         IN  shorter \cup {Append(q, x) : q \in {r \in shorter : Len(r) = n - 1}, x \in S}

AttachmentFiles ==
    { [name |-> "resume.pdf", exists |-> TRUE],
      [name |-> "cover.pdf", exists |-> TRUE],
      [name |-> "gone.pdf", exists |-> FALSE] }

Delays == {0 - 1, 2}

InitState ==
    /\ recruiters = <<>>
    /\ unique_recruiters = <<>>
    /\ app_password = "unset"
    /\ messages = <<>>
    /\ i = 0
    /\ attempt = 0
    /\ server = "none"
    /\ tempFile = FALSE
    /\ log = <<>>
    /\ exitCode = 0 - 1

InitArgs ==
    /\ script \in Scripts
    /\ delay \in Delays
    /\ IF script = "secure"
       THEN /\ attachments \in SeqsUpTo(AttachmentFiles, MaxAttach)
            /\ retries \in (0 - NegRetries)..MaxRetries
            /\ dry_run \in BOOLEAN
       ELSE /\ attachments = <<>>
            /\ retries = 0
            /\ dry_run = FALSE

Init ==
    /\ InitArgs
    /\ csvExists \in BOOLEAN
    /\ rows \in (IF csvExists THEN PipelineFiles ELSE {<<>>})
    /\ pc = (IF script = "secure" THEN "check_attachments" ELSE "load")
    /\ InitState

----------------------------------------------------------------------------
(* main *)

\* the contacts the send loop runs over
Recipients == IF script = "dedup" THEN unique_recruiters ELSE recruiters

\* the files attached to every message
AttachPaths ==
    IF script = "secure" THEN [k \in DOMAIN attachments |-> attachments[k].name]
    ELSE <<RESUME_PATH>>

\* the number of messages of the batch
NumMessages == IF script = "secure" THEN Len(messages) ELSE Len(Recipients)

Exit(code) ==
    /\ pc' = "done"
    /\ exitCode' = code

\* an exception leaves the `with` block of the send phase: the connection is
\* closed; secure turns it into RuntimeError and main exits 1; drive and dedup
\* run the finally block (unlink) and die of the uncaught exception
Raise ==
    /\ server' = (IF server = "open" THEN "closed" ELSE server)
    /\ tempFile' = (IF script = "secure" THEN tempFile ELSE FALSE)
    /\ Exit(1)

CheckAttachments ==
    /\ pc = "check_attachments"
    /\ IF \E k \in DOMAIN attachments : ~attachments[k].exists
       THEN Exit(1)
       ELSE pc' = "load" /\ exitCode' = exitCode
    /\ UNCHANGED <<script, csvExists, rows, attachments, retries, dry_run, delay,
                   recruiters, unique_recruiters, app_password, messages, i,
                   attempt, server, tempFile, log>>

\* secure: FileNotFoundError is caught and main exits 1; drive, dedup: open()
\* raises and nothing catches it
LoadRecruiters ==
    /\ pc = "load"
    /\ IF ~csvExists
       THEN Exit(1) /\ recruiters' = recruiters
       ELSE /\ recruiters' = load_recruiters(script, rows)
            /\ pc' = "check_empty"
            /\ exitCode' = exitCode
    /\ UNCHANGED <<script, csvExists, rows, attachments, retries, dry_run, delay,
                   unique_recruiters, app_password, messages, i, attempt,
                   server, tempFile, log>>

\* exit status of `if not recruiters`: sys.exit(1) in secure, return in the others
EmptyListExit(s) == IF s = "secure" THEN 1 ELSE 0

CheckEmpty ==
    /\ pc = "check_empty"
    /\ IF recruiters = <<>>
       THEN Exit(EmptyListExit(script))
       ELSE /\ pc' = (CASE script = "secure" -> "password"
                        [] script = "drive"  -> "download"
                        [] script = "dedup"  -> "dedupe")
            /\ exitCode' = exitCode
    /\ UNCHANGED <<script, csvExists, rows, attachments, retries, dry_run, delay,
                   recruiters, unique_recruiters, app_password, messages, i,
                   attempt, server, tempFile, log>>

Dedupe ==
    /\ pc = "dedupe"
    /\ unique_recruiters' = Deduplicate(recruiters)
    /\ log' = Append(log, EvSkipped(Len(recruiters) - Len(unique_recruiters')))
    /\ pc' = "download"
    /\ UNCHANGED <<script, csvExists, rows, attachments, retries, dry_run, delay,
                   recruiters, app_password, messages, i, attempt, server,
                   tempFile, exitCode>>

\* download_from_drive: a link of neither shape raises before any request; a
\* request that raises or answers another status than 200 ends in exit(1)
DownloadFromDrive ==
    /\ pc = "download"
    /\ \E link \in {"id=", "/d/", "other"}, status \in {"200", "404", "raise"} :
          IF link = "other"
          THEN /\ Exit(1)
               /\ UNCHANGED <<tempFile, log>>
          ELSE /\ log' = Append(log, EvDownload(status))
               /\ IF status = "200"
                  THEN tempFile' = TRUE /\ pc' = "password" /\ exitCode' = exitCode
                  ELSE tempFile' = tempFile /\ Exit(1)
    /\ UNCHANGED <<script, csvExists, rows, attachments, retries, dry_run, delay,
                   recruiters, unique_recruiters, app_password, messages, i,
                   attempt, server>>

\* what main does with the secret it ends up with (env, getpass, input):
\* "raise" is a prompt that raised with nothing left to catch it
AfterSecret(s, secret) ==
    CASE secret = "raise"             -> "exit"
      [] secret = "" /\ s = "secure"  -> "exit"
      [] s = "secure"                 -> "build"
      [] OTHER                        -> "connect"

AcquirePassword ==
    /\ pc = "password"
    /\ \E env \in {"pw", ""}, typed \in {"pw", "", "raise"}, fallback \in {"pw", "", "raise"} :
          LET secret == IF env # "" THEN env
                        ELSE IF typed = "raise" /\ script = "secure" THEN fallback
                        ELSE typed
          IN  /\ app_password' = (IF secret = "raise" THEN app_password ELSE secret)
              /\ IF AfterSecret(script, secret) = "exit"
                 THEN Exit(1)
                 ELSE pc' = AfterSecret(script, secret) /\ exitCode' = exitCode
    /\ UNCHANGED <<script, csvExists, rows, attachments, retries, dry_run, delay,
                   recruiters, unique_recruiters, messages, i, attempt, server,
                   tempFile, log>>

BuildMessages ==
    /\ pc = "build"
    /\ messages' = [k \in DOMAIN recruiters |->
                        build_message(script, recruiters[k], AttachPaths)]
    /\ pc' = "send"
    /\ UNCHANGED <<script, csvExists, rows, attachments, retries, dry_run, delay,
                   recruiters, unique_recruiters, app_password, i, attempt,
                   server, tempFile, log, exitCode>>

----------------------------------------------------------------------------
(* send_via_gmail (secure) and the send phase of main (drive, dedup) *)

\* a dry-run branch without its return
DryRunFallsThrough == "connect"

\* where send_via_gmail goes after the dry-run listing: it returns
AfterDryRunListing == "done"

\* the dry-run branch: one line per planned send, then return
DryRunListing ==
    /\ pc = "send"
    /\ dry_run
    /\ log' = log \o [k \in DOMAIN messages |-> EvPlanned(k, messages[k])]
    /\ IF AfterDryRunListing = "done"
       THEN Exit(0)
       ELSE pc' = AfterDryRunListing /\ exitCode' = exitCode
    /\ UNCHANGED <<script, csvExists, rows, attachments, retries, dry_run, delay,
                   recruiters, unique_recruiters, app_password, messages, i,
                   attempt, server, tempFile>>

\* smtplib.SMTP_SSL("smtp.gmail.com", 465)
Connect ==
    /\ \/ pc = "send" /\ ~dry_run
       \/ pc = "connect"
    /\ \E res \in {"ok", "fail"} :
          /\ log' = Append(log, EvConnect(res))
          /\ IF res = "ok"
             THEN /\ server' = "open"
                  /\ pc' = "login"
                  /\ UNCHANGED <<tempFile, exitCode>>
             ELSE Raise
    /\ UNCHANGED <<script, csvExists, rows, attachments, retries, dry_run, delay,
                   recruiters, unique_recruiters, app_password, messages, i,
                   attempt>>

\* a login whose failure is swallowed
LoginFailureIgnored(res) == TRUE

\* whether control reaches the statement after server.login(...)
LoginReturns(res) == res = "ok"

\* server.login: SMTPAuthenticationError ("auth") or any other exception
Login ==
    /\ pc = "login"
    /\ \E res \in {"ok", "auth", "other"} :
          /\ log' = Append(log, EvLogin(res))
          /\ IF LoginReturns(res)
             THEN /\ pc' = "loop"
                  /\ i' = 1
                  /\ UNCHANGED <<server, tempFile, exitCode>>
             ELSE Raise /\ i' = i
    /\ UNCHANGED <<script, csvExists, rows, attachments, retries, dry_run, delay,
                   recruiters, unique_recruiters, app_password, messages,
                   attempt>>

\* the head of `for i, ... in enumerate(..., start=1)`: the next message, or
\* the end of the `with` block and of main (the finally block unlinks the file)
LoopNext ==
    /\ pc = "loop"
    /\ IF i <= NumMessages
       THEN /\ attempt' = 0
            /\ pc' = "try"
            /\ UNCHANGED <<server, tempFile, exitCode>>
       ELSE /\ attempt' = attempt
            /\ server' = "closed"
            /\ tempFile' = (IF script = "secure" THEN tempFile ELSE FALSE)
            /\ Exit(0)
    /\ UNCHANGED <<script, csvExists, rows, attachments, retries, dry_run, delay,
                   recruiters, unique_recruiters, app_password, messages, i, log>>

\* a retry loop that runs once more
RetryAgainOnceMore(a, r) == a <= r + 1

\* `while attempt <= retries`
RetryAgain(a, r) == a <= r

\* whether the handler around server.send_message catches the error:
\* `except smtplib.SMTPException` in secure, `except Exception` in the others
CaughtInLoop(s, res) == IF s = "secure" THEN res = "smtp" ELSE TRUE

\* one pass of the retry loop of send_via_gmail
TrySendSecure ==
    /\ pc = "try"
    /\ script = "secure"
    /\ IF ~RetryAgain(attempt, retries)
       THEN /\ pc' = "after"
            /\ UNCHANGED <<attempt, server, tempFile, log, exitCode>>
       ELSE \E res \in {"ok", "smtp", "other"} :
               LET sent == Append(log, EvSend(i, res, messages[i]))
                   to == messages[i].to
               IN  CASE res = "ok" ->
                          /\ log' = Append(sent, EvSent(i, to))
                          /\ pc' = "after"
                          /\ UNCHANGED <<attempt, server, tempFile, exitCode>>
                     [] res # "ok" /\ CaughtInLoop(script, res) ->
                          /\ attempt' = attempt + 1
                          /\ log' = (IF attempt' > retries
                                     THEN Append(sent, EvFailed(i, to))
                                     ELSE Append(sent, EvBackoff(i, Backoff(attempt'))))
                          /\ pc' = "try"
                          /\ UNCHANGED <<server, tempFile, exitCode>>
                     [] OTHER ->
                          /\ log' = sent
                          /\ attempt' = attempt
                          /\ Raise
    /\ UNCHANGED <<script, csvExists, rows, attachments, retries, dry_run, delay,
                   recruiters, unique_recruiters, app_password, messages, i>>

\* send_email inside try/except Exception (drive, dedup): build, send, report
TrySendDrive ==
    /\ pc = "try"
    /\ script # "secure"
    /\ \E res \in {"ok", "smtp", "other"} :
          LET msg == build_message(script, Recipients[i], AttachPaths)
              sent == Append(log, EvSend(i, res, msg))
          IN  /\ messages' = Append(messages, msg)
              /\ IF res = "ok"
                 THEN /\ log' = Append(sent, EvSent(i, msg.to))
                      /\ pc' = "after"
                      /\ UNCHANGED <<server, tempFile, exitCode>>
                 ELSE IF CaughtInLoop(script, res)
                 THEN /\ log' = Append(sent, EvFailed(i, msg.to))
                      /\ pc' = "after"
                      /\ UNCHANGED <<server, tempFile, exitCode>>
                 ELSE /\ log' = sent
                      /\ Raise
    /\ UNCHANGED <<script, csvExists, rows, attachments, retries, dry_run, delay,
                   recruiters, unique_recruiters, app_password, i, attempt>>

\* a pause after every message, the last included
NeedDelayAlways(k, n) == TRUE

\* `if i != len(messages)`
NeedDelay(k, n) == k # n

\* the pause between messages; time.sleep raises ValueError on a negative delay
AfterMessage ==
    /\ pc = "after"
    /\ IF NeedDelay(i, NumMessages) /\ delay < 0
       THEN /\ Raise
            /\ UNCHANGED <<i, log>>
       ELSE /\ log' = (IF NeedDelay(i, NumMessages) THEN Append(log, EvDelay(i)) ELSE log)
            /\ i' = i + 1
            /\ pc' = "loop"
            /\ UNCHANGED <<server, tempFile, exitCode>>
    /\ UNCHANGED <<script, csvExists, rows, attachments, retries, dry_run, delay,
                   recruiters, unique_recruiters, app_password, messages,
                   attempt>>

Next ==
    \/ CheckAttachments
    \/ LoadRecruiters
    \/ CheckEmpty
    \/ Dedupe
    \/ DownloadFromDrive
    \/ AcquirePassword
    \/ BuildMessages
    \/ DryRunListing
    \/ Connect
    \/ Login
    \/ LoopNext
    \/ TrySendSecure
    \/ TrySendDrive
    \/ AfterMessage

Spec == Init /\ [][Next]_vars

----------------------------------------------------------------------------
(* the loaders and the dedup loop on arbitrary small files *)

Cell_A == <<"A">>
Cell_B == <<"B">>
Cell_C == <<"C">>
Cell_x == <<"x", "@", "y">>
Cell_X == <<"X", "@", "Y">>
Cell_z == <<"z", "@", "y">>

LoadRows ==
    { <<T_Name, T_Email>>,                      \* header, both words
      << <<"N","A","M","E">>, <<"t","o">> >>,   \* header, "name" only
      <<Cell_A, Cell_x>>,
      <<Cell_B, Cell_X>>,                       \* Cell_x in upper case
      <<Cell_C, Cell_z>>,
      << <<>>, <<" ", "j", ".", "d", "@", "y">> >>,   \* no name, padded e-mail
      <<Cell_C, <<" ">> >>,                     \* blank e-mail
      <<Cell_A>> }                              \* one cell

InitLoad ==
    /\ script \in Scripts
    /\ csvExists = TRUE
    /\ rows \in SeqsUpTo(LoadRows, MaxRows)
    /\ attachments = <<>>
    /\ retries = 0
    /\ dry_run = FALSE
    /\ delay = 2
    /\ pc = "load"
    /\ InitState

NextLoad ==
    \/ LoadRecruiters
    \/ CheckEmpty
    \/ Dedupe

SpecLoad == InitLoad /\ [][NextLoad]_vars

----------------------------------------------------------------------------
(* properties *)

Positions(ev) == {p \in DOMAIN log : log[p].ev = ev}
PositionsOf(ev, k) == {p \in DOMAIN log : log[p].ev = ev /\ log[p].i = k}
Sends(k) == PositionsOf("send", k)
FailedSends(k) == {p \in Sends(k) : log[p].res # "ok"}
LoggedIn == \E p \in Positions("login") : log[p].res = "ok"
NoNetwork == \A p \in DOMAIN log : log[p].ev \notin NetworkEvents

\* the m-th smallest element of a set of numbers
Kth(S, m) == CHOOSE k \in S : Cardinality({j \in S : j <= k}) = m

\* the contacts of the file as written: stripped, case untouched
RawContacts == load_recruiters("drive", rows)
FirstSeen ==
    {k \in DOMAIN RawContacts :
        \A j \in 1..(k - 1) : Lower(RawContacts[j].email) # Lower(RawContacts[k].email)}

DedupDone == script = "dedup" /\ pc = "download"

\* C7: the dedup step keeps exactly the first contact of each distinct
\* lower-cased e-mail, in first-seen order, drops every later contact whose
\* e-mail equals an earlier one up to case, and reports as skipped the
\* number of contacts it dropped (input length minus output length).
C7_DedupKeepsFirstOccurrence ==
    DedupDone =>
        /\ Len(unique_recruiters) = Cardinality(FirstSeen)
        /\ \A m \in DOMAIN unique_recruiters :
              /\ unique_recruiters[m].name = RawContacts[Kth(FirstSeen, m)].name
              /\ unique_recruiters[m].email = Lower(RawContacts[Kth(FirstSeen, m)].email)
        /\ \A j, k \in DOMAIN unique_recruiters :
              j # k => unique_recruiters[j].email # unique_recruiters[k].email
        /\ log = <<EvSkipped(Len(RawContacts) - Cardinality(FirstSeen))>>
        /\ Len(RawContacts) - Len(unique_recruiters) = log[1].n

\* the example of the specification: (A,x@y), (B,X@Y), (C,z@y) gives
\* (A,x@y), (C,z@y) and one duplicate
C7_Witness ==
    /\ DedupDone
    /\ rows = << <<Cell_A, Cell_x>>, <<Cell_B, Cell_X>>, <<Cell_C, Cell_z>> >>
    /\ unique_recruiters = << [name |-> Cell_A, email |-> Cell_x],
                              [name |-> Cell_C, email |-> Cell_z] >>
    /\ log[1].n = 1

HasHeaderRow ==
    /\ rows # <<>>
    /\ \E k \in DOMAIN rows[1] : Lower(rows[1][k]) \in {T_name, T_email}
ValidRows ==
    {k \in 2..Len(rows) : Len(rows[k]) >= 2 /\ Strip(rows[k][2]) # <<>>}
Loaded == pc # "load" /\ csvExists

LoaderReturnsValidRows ==
    /\ Len(recruiters) = Cardinality(ValidRows)
    /\ \A m \in DOMAIN recruiters :
          /\ recruiters[m].email # <<>>
          /\ Lower(recruiters[m].email) = Lower(Strip(rows[Kth(ValidRows, m)][2]))

\* C8: for a file whose first row is a header (some cell equals "name" or
\* "email" up to case) followed by rows of which N are valid (two cells or
\* more, e-mail not blank), load_recruiters returns N contacts, those of the
\* valid rows in file order: never the header, never an empty e-mail.
C8_LoaderSkipsHeaderAndInvalid ==
    (Loaded /\ HasHeaderRow) => LoaderReturnsValidRows

\* the same for the loader of send_recruiters.py alone
C8_SecureLoaderOnly ==
    (Loaded /\ HasHeaderRow /\ script = "secure") => LoaderReturnsValidRows


----------------------------------------------------------------------------
(* properties of the send phase *)

Finished == pc = "done"
RealBatch == ~dry_run /\ LoggedIn
Max0(n) == IF n < 0 THEN 0 ELSE n

\* C1: in a non-dry-run batch whose login succeeded (and whose --delay is
\* one time.sleep accepts), a failed send of message k, whatever it raised,
\* does not abort the batch: every later message is attempted and the run
\* ends with exit status 0.
C1_SendFailureNeverAborts ==
    (Finished /\ RealBatch /\ delay >= 0) =>
        \A p \in Positions("send") :
            log[p].res # "ok" =>
                /\ \A j \in (log[p].i + 1)..NumMessages : Sends(j) # {}
                /\ exitCode = 0

AttemptsStopAfterSuccess ==
    \A k \in 1..NumMessages :
        \A p, q \in Sends(k) : (log[p].res = "ok" /\ p < q) => FALSE
FailedOnlyAfterAllAttempts ==
    \A p \in Positions("failed") :
        /\ {q \in Sends(log[p].i) : q < p} = FailedSends(log[p].i)
        /\ Cardinality(FailedSends(log[p].i)) = retries + 1

\* C2 as stated, on the batches that run to completion: every message of
\* send_via_gmail gets at most retries + 1 send_message calls, none after a
\* successful one, and is reported FAILED only after exactly retries + 1
\* failed calls.
C2_AtMostRetriesPlusOne ==
    (script = "secure" /\ Finished /\ exitCode = 0 /\ RealBatch) =>
        /\ \A k \in 1..NumMessages : Cardinality(Sends(k)) <= retries + 1
        /\ AttemptsStopAfterSuccess
        /\ FailedOnlyAfterAllAttempts

\* C2, amended: every message of send_via_gmail gets at most
\* max(retries + 1, 0) send_message calls (none when --retries is negative),
\* none after a successful one, and is reported FAILED only after exactly
\* retries + 1 failed calls.
C2_BoundedAttempts ==
    script = "secure" =>
        /\ \A k \in 1..NumMessages : Cardinality(Sends(k)) <= Max0(retries + 1)
        /\ AttemptsStopAfterSuccess
        /\ FailedOnlyAfterAllAttempts

C2_Witness ==
    /\ script = "secure"
    /\ retries = MaxRetries
    /\ \E p \in Positions("failed") :
          Cardinality(FailedSends(log[p].i)) = MaxRetries + 1

\* C3: once server.login has failed the run is over with a non-zero exit
\* status, login was called exactly once and no message was sent.
C3_LoginFailureIsFatal ==
    (\E p \in Positions("login") : log[p].res # "ok") =>
        /\ Finished
        /\ exitCode # 0
        /\ Cardinality(Positions("login")) = 1
        /\ Positions("send") = {}

C3_Witness ==
    /\ Finished
    /\ \E p \in Positions("login") : log[p].res = "auth"
    /\ Len(Recipients) >= 2

\* C4: with --dry-run, send_via_gmail prints one planned (recipient,
\* subject) line per message, in list order, and returns: no connection,
\* login, send or sleep ever happens and the run ends with exit status 0.
C4_DryRunOnlyLists ==
    (script = "secure" /\ dry_run) =>
        /\ pc \notin {"connect", "login", "loop", "try", "after"}
        /\ \A p \in DOMAIN log : log[p].ev = "planned"
        /\ (Finished /\ messages # <<>>) =>
              /\ exitCode = 0
              /\ Len(log) = Len(messages)
              /\ Len(messages) = Len(recruiters)
              /\ \A k \in DOMAIN log :
                    /\ log[k].i = k
                    /\ log[k].to = recruiters[k].email
                    /\ log[k].res = SUBJECT

C4_Witness ==
    /\ script = "secure" /\ dry_run /\ Finished
    /\ Len(messages) = MaxContacts
    /\ Len(log) = MaxContacts

\* C5: once download_from_drive has written the temporary resume file, no
\* run ends with the file still on disk.
C5_TempFileAlwaysDeleted ==
    (Finished /\ \E p \in Positions("download") : log[p].res = "200") => ~tempFile

\* the configuration errors, as the inputs and the secret show them
MissingInputFile == ~csvExists
EmptyContactList == csvExists /\ load_recruiters(script, rows) = <<>>
MissingAttachment == \E k \in DOMAIN attachments : ~attachments[k].exists
MissingSecret == app_password = ""
ConfigurationError ==
    MissingInputFile \/ EmptyContactList \/ MissingAttachment \/ MissingSecret

\* C6: a run with a configuration error (missing input file, empty contact
\* list, missing attachment, missing secret) ends with a non-zero exit
\* status and has done nothing on the network.
C6_ConfigErrorsFatalBeforeNetwork ==
    (Finished /\ ConfigurationError) => (exitCode # 0 /\ NoNetwork)

\* the same for send_recruiters.py alone
C6_SecureOnly ==
    (Finished /\ ConfigurationError /\ script = "secure") => (exitCode # 0 /\ NoNetwork)

\* C9: every message built has the text part first and then one binary part
\* per attachment, in attachment order: k attachments give k + 1 parts.
C9_OnePartPerAttachment ==
    \A m \in DOMAIN messages :
        LET parts == messages[m].parts
        IN  /\ Len(parts) = Len(AttachPaths) + 1
            /\ parts[1].kind = "text"
            /\ \A j \in DOMAIN AttachPaths :
                  parts[j + 1].kind = "bin" /\ parts[j + 1].content = AttachPaths[j]

\* the same for the two scripts with a single attach
C9_ExceptDrive ==
    script # "drive" =>
        \A m \in DOMAIN messages :
            LET parts == messages[m].parts
            IN  /\ Len(parts) = Len(AttachPaths) + 1
                /\ parts[1].kind = "text"
                /\ \A j \in DOMAIN AttachPaths :
                      parts[j + 1].kind = "bin" /\ parts[j + 1].content = AttachPaths[j]

\* C10: in a non-dry-run batch of N >= 1 messages that runs to completion
\* the inter-send delay is slept exactly N - 1 times: once after each
\* message but the last, sent or failed, after all of that message's
\* attempts and before any attempt of a later message.
C10_DelayBetweenMessages ==
    /\ \A q \in Positions("delay") :
          \A p \in DOMAIN log :
              log[p].ev \in {"send", "sent", "failed", "backoff"} =>
                  /\ log[p].i <= log[q].i => p < q
                  /\ log[p].i > log[q].i => q < p
    /\ (Finished /\ exitCode = 0 /\ RealBatch) =>
          /\ NumMessages >= 1
          /\ Cardinality(Positions("delay")) = NumMessages - 1
          /\ \A k \in 1..NumMessages :
                Cardinality(PositionsOf("delay", k)) = (IF k < NumMessages THEN 1 ELSE 0)

C10_Witness ==
    /\ Finished /\ exitCode = 0 /\ RealBatch
    /\ NumMessages = MaxContacts
    /\ Positions("failed") # {}
    /\ Positions("sent") # {}
    /\ Cardinality(Positions("delay")) = MaxContacts - 1

----------------------------------------------------------------------------
(* properties of the retry backoff *)

\* the attempt number of the send_message call at log position p: 1 for the
\* first call for its message, 2 for the first retry, ...
AttemptNo(p) == Cardinality({q \in Sends(log[p].i) : q <= p})

\* C11: in send_via_gmail with retry bound R, the k-th failed attempt of a
\* message (an SMTPException, 1 <= k <= R) is followed at once by a backoff
\* sleep of exactly 2^k seconds; every retry comes right after a backoff
\* sleep for its message; every backoff sleep comes right after a failed
\* attempt; and neither the (R+1)-th failed attempt nor a successful attempt
\* is followed by a backoff sleep.
C11_ExponentialBackoff ==
    script = "secure" =>
        /\ \A p \in Positions("send") :
              /\ (log[p].res = "smtp" /\ AttemptNo(p) <= retries) =>
                    /\ p + 1 \in DOMAIN log
                    /\ log[p + 1] = EvBackoff(log[p].i, 2 ^ AttemptNo(p))
              /\ (log[p].res = "ok" \/ AttemptNo(p) > retries) =>
                    (p + 1 \in DOMAIN log => log[p + 1].ev # "backoff")
              /\ AttemptNo(p) >= 2 =>
                    /\ log[p - 1].ev = "backoff"
                    /\ log[p - 1].i = log[p].i
        /\ \A q \in Positions("backoff") :
              /\ q - 1 \in DOMAIN log
              /\ log[q - 1].ev = "send"
              /\ log[q - 1].res = "smtp"
              /\ log[q - 1].i = log[q].i
              /\ AttemptNo(q - 1) \in 1..retries

\* a message that failed MaxRetries times, slept 2, 4, ... seconds in
\* between, and failed once more
C11_Witness ==
    /\ script = "secure"
    /\ retries = MaxRetries
    /\ \E p \in Positions("failed") :
          /\ \A k \in 1..MaxRetries :
                \E q \in PositionsOf("backoff", log[p].i) : log[q].n = 2 ^ k
          /\ Cardinality(PositionsOf("backoff", log[p].i)) = MaxRetries
          /\ log[p - 1].ev = "send"

============================================================================
